---- MODULE Spec2Model ----
(***************************************************************************)
(* Model of the IQS5XX-B000 trackpad driver (IQS5XX_B000_Trackpad.cpp).    *)
(*                                                                         *)
(* The driver is single-threaded.  Its state is the transport handle, the  *)
(* cached last frame and, while a call runs, the position of that call.    *)
(* The transport (TwoWire) and the ready line are the environment: every   *)
(* endTransmission() result, every requestFrom() count and every received  *)
(* byte is an input drawn from a small set.  Every bus transaction the     *)
(* driver performs during a call is appended to `log`.                     *)
(***************************************************************************)
EXTENDS Integers, Sequences, FiniteSets, TLC

(***************************************************************************)
(* Program constants (IQS5XX_B000_Trackpad.h)                              *)
(***************************************************************************)
IQS5XX_REG_PRODUCT_NUMBER == 0
IQS5XX_REG_VERSION_INFO == 1
IQS5XX_REG_SYS_FLAGS == 16
IQS5XX_REG_TOUCH_X == 22
IQS5XX_REG_TOUCH_Y == 24
IQS5XX_REG_TOUCH_STRENGTH == 26
IQS5XX_REG_AREA == 27
IQS5XX_REG_ACTIVE_REPORT_RATE == 1402
IQS5XX_REG_I2C_TIMEOUT == 1418
IQS5XX_REG_SYS_CFG0 == 1422
IQS5XX_SYS_FLAG_RESET == 128

\* Used by readTouchData but declared nowhere in the header; the values are
\* the adjacent gesture-event registers and the finger-count register of the
\* device's register map.
IQS5XX_SYS_GESTURE_EVENTS_0 == 13
IQS5XX_SYS_GESTURE_EVENTS_1 == 14
IQS5XX_REG_NUM_FINGERS == 17

\* enum TouchState
NO_TOUCH == 0
SINGLE_TOUCH == 1
MULTI_TOUCH == 2

(***************************************************************************)
(* Bounds of the model                                                     *)
(***************************************************************************)
\* Register reads that may fail on the transport within one call.
MaxFaults == 1

(***************************************************************************)
(* Inputs supplied by the environment                                      *)
(***************************************************************************)
\* endTransmission(): 0 success, 2 NACK on address, 4 other error.
ErrCodes == {0, 2, 4}
\* Bytes the device answers with, per register, in the order received.
ProductBytes == {<<0, 0>>, <<1, 0>>, <<0, 40>>, <<0, 41>>, <<1, 41>>,
                 <<1, 52>>, <<0, 58>>}
XBytes == {<<0, 0>>, <<1, 0>>}
YBytes == {<<0, 0>>, <<1, 2>>}
Gesture0Bytes == {<<0>>, <<33>>}
Gesture1Bytes == {<<5>>}
StrengthBytes == {<<0>>, <<7>>}
AreaBytes == {<<3>>}
FingerBytes == {<<1>>}
SysCfg0Bytes == {<<0>>, <<65>>, <<193>>}
VersionBytes == {<<0, 0>>, <<1, 2>>}
SysFlagsBytes == {<<0>>, <<1>>, <<129>>}
\* What the transport answers to a two-phase read of n bytes: the address
\* transaction is refused (err # 0, nothing can be received), or it is
\* accepted and fewer than n bytes arrive, or the n bytes of `data` arrive.
\* `bytes` is what read() would hand out; on an empty receive buffer read()
\* yields -1, which is 255 as a byte.
ReadAnswers(n, data) ==
  {[err |-> e, cnt |-> 0, bytes |-> [i \in 1..n |-> 255]] : e \in ErrCodes \ {0}}
  \cup {[err |-> 0, cnt |-> c, bytes |-> [i \in 1..n |-> 255]] : c \in 0..(n - 1)}
  \cup {[err |-> 0, cnt |-> n, bytes |-> d] : d \in data}
\* Arguments given to the public write primitives.
WriteRegs8 == {IQS5XX_REG_SYS_FLAGS, IQS5XX_REG_VERSION_INFO}
WriteVals8 == {5, IQS5XX_SYS_FLAG_RESET}
WriteRegs16 == {IQS5XX_REG_I2C_TIMEOUT, IQS5XX_REG_ACTIVE_REPORT_RATE}
WriteVals16 == {5, 258}

(***************************************************************************)
(* Integer helpers for the C++ bit operations                              *)
(***************************************************************************)
\* (v >> 8) & 0xFF
HighByte(v) == (v \div 256) % 256
\* v & 0xFF
LowByte(v) == v % 256
\* (v & (1 << k)) != 0
BitSet(v, k) == (v \div (2 ^ k)) % 2 = 1
\* v | 0b10000000 on a uint8_t
OrBit7(v) == IF BitSet(v, 7) THEN v ELSE v + 128

(***************************************************************************)
(* Bus log entries                                                         *)
(***************************************************************************)
\* beginTransmission(_address); write(bytes...); endTransmission() -> res
Tx(bytes, err) == [kind |-> "tx", bytes |-> bytes, n |-> Len(bytes), res |-> err]
\* requestFrom(_address, n) -> res; `got` are the bytes taken with read()
Rx(n, cnt, got) == [kind |-> "rx", bytes |-> got, n |-> n, res |-> cnt]
\* delayMicroseconds(us) / delay(ms) inside the initialization sequence
Delay(us) == [kind |-> "delay", bytes |-> <<>>, n |-> us, res |-> 0]

(***************************************************************************)
(* struct TouchData, with the fields readTouchData assigns                 *)
(***************************************************************************)
ZeroFrame ==
  [x |-> 0, y |-> 0, touchStrength |-> 0, area |-> 0, state |-> NO_TOUCH,
   numFingers |-> 0,
   swipeY_minus |-> FALSE, swipeY_plus |-> FALSE, swipeX_plus |-> FALSE,
   swipeX_minus |-> FALSE, pressAndHold |-> FALSE, singleTap |-> FALSE,
   zoom |-> FALSE, scroll |-> FALSE, twoFingerTap |-> FALSE]

\* A frame of the caller whose every field differs from what a read can store.
MarkFrame ==
  [x |-> 9, y |-> 9, touchStrength |-> 9, area |-> 9, state |-> MULTI_TOUCH,
   numFingers |-> 9,
   swipeY_minus |-> TRUE, swipeY_plus |-> TRUE, swipeX_plus |-> TRUE,
   swipeX_minus |-> TRUE, pressAndHold |-> TRUE, singleTap |-> TRUE,
   zoom |-> TRUE, scroll |-> TRUE, twoFingerTap |-> TRUE]

\* The frames a caller hands to readTouchData.
PriorFrames == {ZeroFrame, MarkFrame}

VARIABLES
  wire,           \* _wire: "null" or "bound"
  lastTouchData,  \* _lastTouchData
  rdy,            \* level of the ready line: "HIGH" or "LOW"
  op,             \* the public function called last
  pc,             \* position inside that call; "done" once it returned
  ret,            \* its return value when that is a bool (valid when pc = "done")
  result,         \* its return value when that is a number or a TouchState
  log,            \* bus transactions and delays of that call, in order
  faults,         \* register reads of that call that failed on the transport
  touchData,      \* readTouchData: the caller's frame (reference argument)
  priorData,      \* readTouchData: the caller's frame as it was at the call
  productNumber,  \* begin: local productNumber
  gesture0,       \* readTouchData: local gesture0
  gesture1,       \* readTouchData: local gesture1
  reg,            \* write primitives: argument reg
  value,          \* write primitives: argument value
  twin            \* the outcome of an earlier run of the call, kept to compare

vars == <<wire, lastTouchData, rdy, op, pc, ret, result, log, faults, touchData,
          priorData, productNumber, gesture0, gesture1, reg, value, twin>>

\* No earlier run is kept.
NoTwin == [kept |-> FALSE, ret |-> FALSE, touchData |-> ZeroFrame,
           lastTouchData |-> ZeroFrame, log |-> <<>>]

(***************************************************************************)
(* Register access primitives.  Each operator takes the handle `w` and the *)
(* transport's answers (err: endTransmission result, cnt: requestFrom      *)
(* count, the received bytes) and yields the returned value `val` and the  *)
(* bus transactions `bus` the call performed.                              *)
(***************************************************************************)
readRegister8(w, r, err, cnt, b) ==
  IF w = "null" THEN [val |-> 0, bus |-> <<>>]
  ELSE IF err # 0 THEN [val |-> 0, bus |-> <<Tx(<<r>>, err)>>]
  ELSE IF cnt # 1 THEN [val |-> 0, bus |-> <<Tx(<<r>>, err), Rx(1, cnt, <<>>)>>]
  ELSE [val |-> b, bus |-> <<Tx(<<r>>, err), Rx(1, cnt, <<b>>)>>]

\* Faulty variant: a failed read yields 255 instead of 0.
readRegister8_16bit_FailsWith255(w, r, err, cnt, b) ==
  LET addr == Tx(<<HighByte(r), LowByte(r)>>, err) IN
  IF w = "null" THEN [val |-> 255, bus |-> <<>>]
  ELSE IF err # 0 THEN [val |-> 255, bus |-> <<addr>>]
  ELSE IF cnt # 1 THEN [val |-> 255, bus |-> <<addr, Rx(1, cnt, <<>>)>>]
  ELSE [val |-> b, bus |-> <<addr, Rx(1, cnt, <<b>>)>>]

readRegister8_16bit(w, r, err, cnt, b) ==
  LET addr == Tx(<<HighByte(r), LowByte(r)>>, err) IN
  IF w = "null" THEN [val |-> 0, bus |-> <<>>]
  ELSE IF err # 0 THEN [val |-> 0, bus |-> <<addr>>]
  ELSE IF cnt # 1 THEN [val |-> 0, bus |-> <<addr, Rx(1, cnt, <<>>)>>]
  ELSE [val |-> b, bus |-> <<addr, Rx(1, cnt, <<b>>)>>]

\* Faulty variant: one received byte is enough to assemble a value.
readRegister16_16bit_PartialValue(w, r, err, cnt, high, low) ==
  LET addr == Tx(<<HighByte(r), LowByte(r)>>, err) IN
  IF w = "null" THEN [val |-> 0, bus |-> <<>>]
  ELSE IF err # 0 THEN [val |-> 0, bus |-> <<addr>>]
  ELSE IF cnt < 1 THEN [val |-> 0, bus |-> <<addr, Rx(2, cnt, <<>>)>>]
  ELSE [val |-> high * 256 + low, bus |-> <<addr, Rx(2, cnt, <<high, low>>)>>]

readRegister16_16bit(w, r, err, cnt, high, low) ==
  LET addr == Tx(<<HighByte(r), LowByte(r)>>, err) IN
  IF w = "null" THEN [val |-> 0, bus |-> <<>>]
  ELSE IF err # 0 THEN [val |-> 0, bus |-> <<addr>>]
  ELSE IF cnt # 2 THEN [val |-> 0, bus |-> <<addr, Rx(2, cnt, <<>>)>>]
  ELSE [val |-> high * 256 + low, bus |-> <<addr, Rx(2, cnt, <<high, low>>)>>]

\* readBytes(reg, buffer, length): val is TRUE/FALSE, buf the filled buffer.
readBytes(w, r, length, err, cnt, bytes) ==
  IF w = "null" \/ length = 0 THEN [val |-> FALSE, buf |-> <<>>, bus |-> <<>>]
  ELSE IF err # 0 THEN [val |-> FALSE, buf |-> <<>>, bus |-> <<Tx(<<r>>, err)>>]
  ELSE IF cnt # length
    THEN [val |-> FALSE, buf |-> <<>>,
          bus |-> <<Tx(<<r>>, err), Rx(length, cnt, <<>>)>>]
  ELSE [val |-> TRUE, buf |-> SubSeq(bytes, 1, length),
        bus |-> <<Tx(<<r>>, err), Rx(length, cnt, SubSeq(bytes, 1, length))>>]

\* Faulty variant: the buffer is assembled first byte high.
readRegister16_FirstByteHigh(w, r, err, cnt, bytes) ==
  LET got == readBytes(w, r, 2, err, cnt, bytes) IN
  IF ~got.val THEN [val |-> 0, bus |-> got.bus]
  ELSE [val |-> got.buf[1] * 256 + got.buf[2], bus |-> got.bus]

readRegister16(w, r, err, cnt, bytes) ==
  LET got == readBytes(w, r, 2, err, cnt, bytes) IN
  IF ~got.val THEN [val |-> 0, bus |-> got.bus]
  ELSE [val |-> got.buf[2] * 256 + got.buf[1], bus |-> got.bus]

writeRegister8(w, r, v, err) ==
  IF w = "null" THEN [val |-> FALSE, bus |-> <<>>]
  ELSE [val |-> (err = 0), bus |-> <<Tx(<<r, v>>, err)>>]

writeRegister8_16bit(w, r, v, err) ==
  IF w = "null" THEN [val |-> FALSE, bus |-> <<>>]
  ELSE [val |-> (err = 0), bus |-> <<Tx(<<HighByte(r), LowByte(r), v>>, err)>>]

\* Faulty variant: the value is sent low byte first.
writeRegister16_LowByteFirst(w, r, v, err) ==
  IF w = "null" THEN [val |-> FALSE, bus |-> <<>>]
  ELSE [val |-> (err = 0),
        bus |-> <<Tx(<<HighByte(r), LowByte(r), LowByte(v), HighByte(v)>>, err)>>]

writeRegister16(w, r, v, err) ==
  IF w = "null" THEN [val |-> FALSE, bus |-> <<>>]
  ELSE [val |-> (err = 0),
        bus |-> <<Tx(<<HighByte(r), LowByte(r), HighByte(v), LowByte(v)>>, err)>>]

(***************************************************************************)
(* Device lifecycle helpers                                                *)
(***************************************************************************)
\* Faulty variant: the probe is sent without looking at the handle.
isConnected_NoGuard(w, err) ==
  [val |-> (err = 0), bus |-> <<Tx(<<>>, err)>>]

isConnected(w, err) ==
  IF w = "null" THEN [val |-> FALSE, bus |-> <<>>]
  ELSE [val |-> (err = 0), bus |-> <<Tx(<<>>, err)>>]

getProductNumber(w, err, cnt, productHigh, productLow) ==
  LET addr == Tx(<<HighByte(IQS5XX_REG_PRODUCT_NUMBER),
                   LowByte(IQS5XX_REG_PRODUCT_NUMBER)>>, err) IN
  IF w = "null" THEN [val |-> 0, bus |-> <<>>]
  ELSE IF err # 0 THEN [val |-> 0, bus |-> <<addr>>]
  ELSE IF cnt # 2 THEN [val |-> 0, bus |-> <<addr, Rx(2, cnt, <<>>)>>]
  ELSE [val |-> productHigh * 256 + productLow,
        bus |-> <<addr, Rx(2, cnt, <<productHigh, productLow>>)>>]

\* Faulty variant: the wake kick must be acknowledged too.
wakeupDevice_BothAck(w, result1, result2) ==
  IF w = "null" THEN [val |-> FALSE, bus |-> <<>>]
  ELSE [val |-> (result1 = 0 /\ result2 = 0),
        bus |-> <<Tx(<<>>, result1), Delay(200), Tx(<<>>, result2)>>]

wakeupDevice(w, result1, result2) ==
  IF w = "null" THEN [val |-> FALSE, bus |-> <<>>]
  ELSE [val |-> (result2 = 0),
        bus |-> <<Tx(<<>>, result1), Delay(200), Tx(<<>>, result2)>>]

enableManualControl(w, err, cnt, b, werr) ==
  LET rd == readRegister8_16bit(w, IQS5XX_REG_SYS_CFG0, err, cnt, b)
      sysConf0 == OrBit7(rd.val)
      wr == writeRegister8_16bit(w, IQS5XX_REG_SYS_CFG0, sysConf0, werr)
  IN IF w = "null" THEN [val |-> FALSE, bus |-> <<>>]
     ELSE [val |-> wr.val, bus |-> rd.bus \o wr.bus]

getVersionInfo(w, err, cnt, bytes) ==
  readRegister16(w, IQS5XX_REG_VERSION_INFO, err, cnt, bytes)

getSystemFlags(w, err, cnt, b) ==
  readRegister8(w, IQS5XX_REG_SYS_FLAGS, err, cnt, b)

\* (flags & IQS5XX_SYS_FLAG_RESET) != 0, the reset flag being bit 7
needsReset(w, err, cnt, b) ==
  LET flags == getSystemFlags(w, err, cnt, b)
  IN [val |-> BitSet(flags.val, 7), bus |-> flags.bus]

softReset(w, err) ==
  writeRegister8(w, IQS5XX_REG_SYS_FLAGS, IQS5XX_SYS_FLAG_RESET, err)

\* Faulty variant: the report-rate write is issued whatever the first write did.
increaseSpeed_AlwaysBothWrites(w, err1, err2) ==
  LET w1 == writeRegister8_16bit(w, IQS5XX_REG_I2C_TIMEOUT, 5, err1)
      w2 == writeRegister16(w, IQS5XX_REG_ACTIVE_REPORT_RATE, 5, err2)
  IN [val |-> w1.val /\ w2.val, bus |-> w1.bus \o w2.bus]

\* increaseSpeed() writes through the sketch's global `trackpad` object, which
\* is this driver instance.
increaseSpeed(w, err1, err2) ==
  LET w1 == writeRegister8_16bit(w, IQS5XX_REG_I2C_TIMEOUT, 5, err1)
      w2 == writeRegister16(w, IQS5XX_REG_ACTIVE_REPORT_RATE, 5, err2)
  IN IF ~w1.val THEN [val |-> FALSE, bus |-> w1.bus]
     ELSE IF ~w2.val THEN [val |-> FALSE, bus |-> w1.bus \o w2.bus]
     ELSE [val |-> TRUE, bus |-> w1.bus \o w2.bus]

(***************************************************************************)
(* Decisions of begin() and readTouchData()                                *)
(***************************************************************************)
\* Faulty variant: every probe error is taken for a sleeping device.
ProbeOutcome_AnyErrorAsleep(error) ==
  IF error = 0 THEN "awake" ELSE "asleep"

\* begin(): what the presence probe's result leads to.
ProbeOutcome(error) ==
  IF error = 0 THEN "awake"
  ELSE IF error = 2 THEN "asleep"
  ELSE "absent"

\* Faulty variant: product ID 52 is missing from the accepted set.
ProductAccepted_Without52(pn) ==
  LET productID == LowByte(pn) IN
  /\ pn # 0
  /\ ~(productID # 40 /\ productID # 58)

\* begin(): the product number passes the identity verification.
ProductAccepted(pn) ==
  LET productID == LowByte(pn) IN
  /\ pn # 0
  /\ ~(productID # 40 /\ productID # 58 /\ productID # 52)

\* Faulty variant: the strength is not looked at.
TouchStateOf_IgnoresStrength(touchStrength, x, y) ==
  IF x = 0 /\ y = 0 THEN NO_TOUCH
  ELSE SINGLE_TOUCH

\* readTouchData(): the touch state from strength and coordinates.
TouchStateOf(touchStrength, x, y) ==
  IF touchStrength = 0 THEN NO_TOUCH
  ELSE IF x = 0 /\ y = 0 THEN NO_TOUCH
  ELSE SINGLE_TOUCH

\* readTouchData(): the nine gesture flags of a frame.
\* Faulty variant: the two lowest bits of gesture0 are taken for each other.
DecodeGestures_TapHoldSwapped(f, g0, g1) ==
  [f EXCEPT !.swipeY_minus = BitSet(g0, 5),
            !.swipeY_plus  = BitSet(g0, 4),
            !.swipeX_plus  = BitSet(g0, 3),
            !.swipeX_minus = BitSet(g0, 2),
            !.pressAndHold = BitSet(g0, 0),
            !.singleTap    = BitSet(g0, 1),
            !.zoom         = BitSet(g1, 2),
            !.scroll       = BitSet(g1, 1),
            !.twoFingerTap = BitSet(g1, 0)]

DecodeGestures(f, g0, g1) ==
  [f EXCEPT !.swipeY_minus = BitSet(g0, 5),
            !.swipeY_plus  = BitSet(g0, 4),
            !.swipeX_plus  = BitSet(g0, 3),
            !.swipeX_minus = BitSet(g0, 2),
            !.pressAndHold = BitSet(g0, 1),
            !.singleTap    = BitSet(g0, 0),
            !.zoom         = BitSet(g1, 2),
            !.scroll       = BitSet(g1, 1),
            !.twoFingerTap = BitSet(g1, 0)]

\* A register read failed on the transport: address phase error or wrong count.
ReadFailed(err, cnt, n) == err # 0 \/ cnt # n
\* The environment may make a read fail only within the fault budget.
FaultAllowed(err, cnt, n) == ReadFailed(err, cnt, n) => faults < MaxFaults
FaultsAfter(err, cnt, n) == IF ReadFailed(err, cnt, n) THEN faults + 1 ELSE faults

(***************************************************************************)
(* Initial state: after the constructor                                    *)
(***************************************************************************)
Init ==
  /\ wire = "null"
  /\ lastTouchData = ZeroFrame
  /\ rdy \in {"HIGH", "LOW"}
  /\ op = "none"
  /\ pc = "idle"
  /\ ret = FALSE
  /\ result = 0
  /\ log = <<>>
  /\ faults = 0
  /\ touchData = ZeroFrame
  /\ priorData = ZeroFrame
  /\ productNumber = 0
  /\ gesture0 = 0
  /\ gesture1 = 0
  /\ reg = 0
  /\ value = 0
  /\ twin = NoTwin

\* No call is running: the sketch may call a public function.
CanCall == pc \in {"idle", "done"}

\* Variables of a call that the call being started does not use.
NoFrame ==
  /\ touchData' = ZeroFrame
  /\ priorData' = ZeroFrame
  /\ gesture0' = 0
  /\ gesture1' = 0
NoArgs == reg' = 0 /\ value' = 0

\* A public function that runs as one step: it returns r.val after r.bus.
OneStep(name, r) ==
  /\ op' = name
  /\ pc' = "done"
  /\ ret' = r.val
  /\ result' = 0
  /\ log' = r.bus
  /\ productNumber' = 0
  /\ NoFrame
  /\ UNCHANGED <<wire, lastTouchData, rdy, twin>>

\* The same for a function that returns a number.
OneStepNum(name, r) ==
  /\ op' = name
  /\ pc' = "done"
  /\ ret' = FALSE
  /\ result' = r.val
  /\ log' = r.bus
  /\ productNumber' = 0
  /\ NoFrame
  /\ UNCHANGED <<wire, lastTouchData, rdy, twin>>

(***************************************************************************)
(* begin(TwoWire &wire)                                                    *)
(***************************************************************************)
\* Binds the transport, waits, probes the device address.
begin ==
  /\ CanCall
  /\ \E error \in ErrCodes :
       /\ wire' = "bound"
       /\ op' = "begin"
       /\ log' = <<Delay(1000), Tx(<<>>, error)>>
       /\ ret' = FALSE
       /\ result' = 0
       /\ pc' = CASE ProbeOutcome(error) = "awake" -> "begin_identity"
                  [] ProbeOutcome(error) = "asleep" -> "begin_wakeup"
                  [] OTHER -> "done"
  /\ faults' = 0
  /\ productNumber' = 0
  /\ NoFrame
  /\ NoArgs
  /\ UNCHANGED <<lastTouchData, rdy, twin>>

\* if (!wakeupDevice()) return false;
begin_wakeupDevice ==
  /\ pc = "begin_wakeup"
  /\ \E result1 \in ErrCodes, result2 \in ErrCodes :
       LET r == wakeupDevice(wire, result1, result2) IN
       /\ log' = log \o r.bus
       /\ pc' = IF r.val THEN "begin_identity" ELSE "done"
  /\ UNCHANGED <<wire, lastTouchData, rdy, op, ret, faults, touchData,
                 priorData, productNumber, gesture0, gesture1,
                 reg, value, result, twin>>

\* productNumber = getProductNumber(); zero and product ID checks.
begin_getProductNumber ==
  /\ pc = "begin_identity"
  /\ \E a \in ReadAnswers(2, ProductBytes) :
       LET r == getProductNumber(wire, a.err, a.cnt, a.bytes[1], a.bytes[2]) IN
       /\ FaultAllowed(a.err, a.cnt, 2)
       /\ faults' = FaultsAfter(a.err, a.cnt, 2)
       /\ productNumber' = r.val
       /\ log' = log \o r.bus
       /\ pc' = IF ProductAccepted(r.val) THEN "begin_manual" ELSE "done"
  /\ UNCHANGED <<wire, lastTouchData, rdy, op, ret, touchData, priorData,
                 gesture0, gesture1, reg, value, result, twin>>

\* if (!enableManualControl()) return false; delay(1); return true;
begin_enableManualControl ==
  /\ pc = "begin_manual"
  /\ \E a \in ReadAnswers(1, SysCfg0Bytes), werr \in ErrCodes :
       LET r == enableManualControl(wire, a.err, a.cnt, a.bytes[1], werr) IN
       /\ FaultAllowed(a.err, a.cnt, 1)
       /\ faults' = FaultsAfter(a.err, a.cnt, 1)
       /\ log' = log \o r.bus \o (IF r.val THEN <<Delay(1000)>> ELSE <<>>)
       /\ ret' = r.val
       /\ pc' = "done"
  /\ UNCHANGED <<wire, lastTouchData, rdy, op, touchData, priorData,
                 productNumber, gesture0, gesture1, reg, value, result, twin>>

(***************************************************************************)
(* Public functions that run as one step                                   *)
(***************************************************************************)
Call_isConnected ==
  /\ CanCall
  /\ \E err \in ErrCodes : OneStep("isConnected", isConnected(wire, err))
  /\ faults' = 0
  /\ NoArgs

Call_getProductNumber ==
  /\ CanCall
  /\ \E a \in ReadAnswers(2, ProductBytes) :
       /\ ReadFailed(a.err, a.cnt, 2) => 0 < MaxFaults
       /\ faults' = IF ReadFailed(a.err, a.cnt, 2) THEN 1 ELSE 0
       /\ OneStepNum("getProductNumber",
                  getProductNumber(wire, a.err, a.cnt, a.bytes[1], a.bytes[2]))
  /\ NoArgs

Call_getVersionInfo ==
  /\ CanCall
  /\ \E a \in ReadAnswers(2, VersionBytes) :
       /\ ReadFailed(a.err, a.cnt, 2) => 0 < MaxFaults
       /\ faults' = IF ReadFailed(a.err, a.cnt, 2) THEN 1 ELSE 0
       /\ OneStepNum("getVersionInfo", getVersionInfo(wire, a.err, a.cnt, a.bytes))
  /\ NoArgs

Call_getSystemFlags ==
  /\ CanCall
  /\ \E a \in ReadAnswers(1, SysFlagsBytes) :
       /\ ReadFailed(a.err, a.cnt, 1) => 0 < MaxFaults
       /\ faults' = IF ReadFailed(a.err, a.cnt, 1) THEN 1 ELSE 0
       /\ OneStepNum("getSystemFlags",
                  getSystemFlags(wire, a.err, a.cnt, a.bytes[1]))
  /\ NoArgs

Call_needsReset ==
  /\ CanCall
  /\ \E a \in ReadAnswers(1, SysFlagsBytes) :
       /\ ReadFailed(a.err, a.cnt, 1) => 0 < MaxFaults
       /\ faults' = IF ReadFailed(a.err, a.cnt, 1) THEN 1 ELSE 0
       /\ OneStep("needsReset", needsReset(wire, a.err, a.cnt, a.bytes[1]))
  /\ NoArgs

Call_wakeupDevice ==
  /\ CanCall
  /\ \E result1 \in ErrCodes, result2 \in ErrCodes :
       OneStep("wakeupDevice", wakeupDevice(wire, result1, result2))
  /\ faults' = 0
  /\ NoArgs

Call_enableManualControl ==
  /\ CanCall
  /\ \E a \in ReadAnswers(1, SysCfg0Bytes), werr \in ErrCodes :
       /\ ReadFailed(a.err, a.cnt, 1) => 0 < MaxFaults
       /\ faults' = IF ReadFailed(a.err, a.cnt, 1) THEN 1 ELSE 0
       /\ OneStep("enableManualControl",
                  enableManualControl(wire, a.err, a.cnt, a.bytes[1], werr))
  /\ NoArgs

Call_softReset ==
  /\ CanCall
  /\ \E err \in ErrCodes : OneStep("softReset", softReset(wire, err))
  /\ faults' = 0
  /\ NoArgs

Call_increaseSpeed ==
  /\ CanCall
  /\ \E err1 \in ErrCodes, err2 \in ErrCodes :
       OneStep("increaseSpeed", increaseSpeed(wire, err1, err2))
  /\ faults' = 0
  /\ NoArgs

Call_writeRegister8 ==
  /\ CanCall
  /\ \E r \in WriteRegs8, v \in WriteVals8, err \in ErrCodes :
       /\ reg' = r
       /\ value' = v
       /\ OneStep("writeRegister8", writeRegister8(wire, r, v, err))
  /\ faults' = 0

Call_writeRegister8_16bit ==
  /\ CanCall
  /\ \E r \in WriteRegs16, v \in WriteVals8, err \in ErrCodes :
       /\ reg' = r
       /\ value' = v
       /\ OneStep("writeRegister8_16bit", writeRegister8_16bit(wire, r, v, err))
  /\ faults' = 0

Call_writeRegister16 ==
  /\ CanCall
  /\ \E r \in WriteRegs16, v \in WriteVals16, err \in ErrCodes :
       /\ reg' = r
       /\ value' = v
       /\ OneStep("writeRegister16", writeRegister16(wire, r, v, err))
  /\ faults' = 0

(***************************************************************************)
(* readTouchData(TouchData &touchData)                                     *)
(***************************************************************************)
\* The variables readTouchData's read steps leave alone.
RtdFixed ==
  <<wire, rdy, op, priorData, productNumber, reg, value, result, twin>>

\* The convenience accessors, which call readTouchData on a local frame.
Accessors ==
  {"getTouchState", "getTouchX", "getTouchY", "getTouchStrength", "getTouchArea"}
\* Where readTouchData returns to: the sketch, or the accessor that called it.
ReturnPc == IF op \in Accessors THEN "acc_return" ELSE "done"

\* The call: the caller hands in its frame.
readTouchData ==
  /\ CanCall
  /\ \E f \in PriorFrames :
       /\ touchData' = f
       /\ priorData' = f
  /\ op' = "readTouchData"
  /\ pc' = "rtd_wait"
  /\ ret' = FALSE
  /\ result' = 0
  /\ log' = <<>>
  /\ faults' = 0
  /\ productNumber' = 0
  /\ gesture0' = 0
  /\ gesture1' = 0
  /\ NoArgs
  /\ UNCHANGED <<wire, lastTouchData, rdy, twin>>

\* Faulty variant: the line is sampled once and a HIGH sample gives up.
readTouchData_wait_GivesUp ==
  /\ pc = "rtd_wait"
  /\ pc' = IF rdy = "HIGH" THEN ReturnPc ELSE "rtd_x"
  /\ UNCHANGED <<wire, lastTouchData, rdy, op, ret, log, faults, touchData,
                 priorData, productNumber, gesture0, gesture1,
                 reg, value, result, twin>>

\* while (digitalRead(_readyPin) == HIGH) { delayMicroseconds(10); }
readTouchData_wait ==
  /\ pc = "rtd_wait"
  /\ pc' = IF rdy = "HIGH" THEN "rtd_wait" ELSE "rtd_x"
  /\ UNCHANGED <<wire, lastTouchData, rdy, op, ret, log, faults, touchData,
                 priorData, productNumber, gesture0, gesture1,
                 reg, value, result, twin>>

\* Faulty variant: the aborted frame is stored in the cache as well.
readTouchData_x_CachesAbort ==
  /\ pc = "rtd_x"
  /\ \E a \in ReadAnswers(2, XBytes) :
       LET r == readRegister16_16bit(wire, IQS5XX_REG_TOUCH_X, a.err, a.cnt,
                                     a.bytes[1], a.bytes[2]) IN
       /\ FaultAllowed(a.err, a.cnt, 2)
       /\ faults' = FaultsAfter(a.err, a.cnt, 2)
       /\ log' = log \o r.bus
       /\ IF r.val = 0
            THEN /\ touchData' = [touchData EXCEPT !.x = r.val, !.state = NO_TOUCH]
                 /\ lastTouchData' = touchData'
                 /\ ret' = FALSE
                 /\ pc' = ReturnPc
            ELSE /\ touchData' = [touchData EXCEPT !.x = r.val]
                 /\ lastTouchData' = lastTouchData
                 /\ ret' = ret
                 /\ pc' = "rtd_y"
  /\ UNCHANGED <<gesture0, gesture1>>
  /\ UNCHANGED RtdFixed

\* touchData.x = readRegister16_16bit(IQS5XX_REG_TOUCH_X); abort on zero.
readTouchData_x ==
  /\ pc = "rtd_x"
  /\ \E a \in ReadAnswers(2, XBytes) :
       LET r == readRegister16_16bit(wire, IQS5XX_REG_TOUCH_X, a.err, a.cnt,
                                     a.bytes[1], a.bytes[2]) IN
       /\ FaultAllowed(a.err, a.cnt, 2)
       /\ faults' = FaultsAfter(a.err, a.cnt, 2)
       /\ log' = log \o r.bus
       /\ IF r.val = 0
            THEN /\ touchData' = [touchData EXCEPT !.x = r.val, !.state = NO_TOUCH]
                 /\ ret' = FALSE
                 /\ pc' = ReturnPc
            ELSE /\ touchData' = [touchData EXCEPT !.x = r.val]
                 /\ ret' = ret
                 /\ pc' = "rtd_y"
  /\ UNCHANGED <<lastTouchData, gesture0, gesture1>>
  /\ UNCHANGED RtdFixed

\* Faulty variant: a zero Y marks the frame NO_TOUCH but the sequence goes on.
readTouchData_y_NoAbort ==
  /\ pc = "rtd_y"
  /\ \E a \in ReadAnswers(2, YBytes) :
       LET r == readRegister16_16bit(wire, IQS5XX_REG_TOUCH_Y, a.err, a.cnt,
                                     a.bytes[1], a.bytes[2]) IN
       /\ FaultAllowed(a.err, a.cnt, 2)
       /\ faults' = FaultsAfter(a.err, a.cnt, 2)
       /\ log' = log \o r.bus
       /\ IF r.val = 0
            THEN touchData' = [touchData EXCEPT !.y = r.val, !.state = NO_TOUCH]
            ELSE touchData' = [touchData EXCEPT !.y = r.val]
  /\ ret' = ret
  /\ pc' = "rtd_gesture0"
  /\ UNCHANGED <<lastTouchData, gesture0, gesture1>>
  /\ UNCHANGED RtdFixed

\* touchData.y = readRegister16_16bit(IQS5XX_REG_TOUCH_Y); abort on zero.
readTouchData_y ==
  /\ pc = "rtd_y"
  /\ \E a \in ReadAnswers(2, YBytes) :
       LET r == readRegister16_16bit(wire, IQS5XX_REG_TOUCH_Y, a.err, a.cnt,
                                     a.bytes[1], a.bytes[2]) IN
       /\ FaultAllowed(a.err, a.cnt, 2)
       /\ faults' = FaultsAfter(a.err, a.cnt, 2)
       /\ log' = log \o r.bus
       /\ IF r.val = 0
            THEN /\ touchData' = [touchData EXCEPT !.y = r.val, !.state = NO_TOUCH]
                 /\ ret' = FALSE
                 /\ pc' = ReturnPc
            ELSE /\ touchData' = [touchData EXCEPT !.y = r.val]
                 /\ ret' = ret
                 /\ pc' = "rtd_gesture0"
  /\ UNCHANGED <<lastTouchData, gesture0, gesture1>>
  /\ UNCHANGED RtdFixed

\* Faulty variant: the line is sampled again before the gesture reads.
readTouchData_gesture0_SamplesLine ==
  /\ pc = "rtd_gesture0"
  /\ rdy = "LOW"
  /\ \E a \in ReadAnswers(1, Gesture0Bytes) :
       LET r == readRegister8_16bit(wire, IQS5XX_SYS_GESTURE_EVENTS_0,
                                    a.err, a.cnt, a.bytes[1]) IN
       /\ FaultAllowed(a.err, a.cnt, 1)
       /\ faults' = FaultsAfter(a.err, a.cnt, 1)
       /\ log' = log \o r.bus
       /\ gesture0' = r.val
  /\ pc' = "rtd_gesture1"
  /\ UNCHANGED <<lastTouchData, ret, touchData, gesture1>>
  /\ UNCHANGED RtdFixed

\* uint8_t gesture0 = readRegister8_16bit(IQS5XX_SYS_GESTURE_EVENTS_0);
readTouchData_gesture0 ==
  /\ pc = "rtd_gesture0"
  /\ \E a \in ReadAnswers(1, Gesture0Bytes) :
       LET r == readRegister8_16bit(wire, IQS5XX_SYS_GESTURE_EVENTS_0,
                                    a.err, a.cnt, a.bytes[1]) IN
       /\ FaultAllowed(a.err, a.cnt, 1)
       /\ faults' = FaultsAfter(a.err, a.cnt, 1)
       /\ log' = log \o r.bus
       /\ gesture0' = r.val
  /\ pc' = "rtd_gesture1"
  /\ UNCHANGED <<lastTouchData, ret, touchData, gesture1>>
  /\ UNCHANGED RtdFixed

\* uint8_t gesture1 = readRegister8_16bit(IQS5XX_SYS_GESTURE_EVENTS_1);
\* followed by the nine flag assignments.
readTouchData_gesture1 ==
  /\ pc = "rtd_gesture1"
  /\ \E a \in ReadAnswers(1, Gesture1Bytes) :
       LET r == readRegister8_16bit(wire, IQS5XX_SYS_GESTURE_EVENTS_1,
                                    a.err, a.cnt, a.bytes[1]) IN
       /\ FaultAllowed(a.err, a.cnt, 1)
       /\ faults' = FaultsAfter(a.err, a.cnt, 1)
       /\ log' = log \o r.bus
       /\ gesture1' = r.val
       /\ touchData' = DecodeGestures(touchData, gesture0, r.val)
  /\ pc' = "rtd_strength"
  /\ UNCHANGED <<lastTouchData, ret, gesture0>>
  /\ UNCHANGED RtdFixed

\* Faulty variant: the strength is read after the area, from the area register.
readTouchData_strength_ReadsArea ==
  /\ pc = "rtd_strength"
  /\ \E a \in ReadAnswers(1, StrengthBytes) :
       LET r == readRegister8_16bit(wire, IQS5XX_REG_AREA,
                                    a.err, a.cnt, a.bytes[1]) IN
       /\ FaultAllowed(a.err, a.cnt, 1)
       /\ faults' = FaultsAfter(a.err, a.cnt, 1)
       /\ log' = log \o r.bus
       /\ touchData' = [touchData EXCEPT !.touchStrength = r.val]
  /\ pc' = "rtd_area"
  /\ UNCHANGED <<lastTouchData, ret, gesture0, gesture1>>
  /\ UNCHANGED RtdFixed

\* touchData.touchStrength = readRegister8_16bit(IQS5XX_REG_TOUCH_STRENGTH);
readTouchData_strength ==
  /\ pc = "rtd_strength"
  /\ \E a \in ReadAnswers(1, StrengthBytes) :
       LET r == readRegister8_16bit(wire, IQS5XX_REG_TOUCH_STRENGTH,
                                    a.err, a.cnt, a.bytes[1]) IN
       /\ FaultAllowed(a.err, a.cnt, 1)
       /\ faults' = FaultsAfter(a.err, a.cnt, 1)
       /\ log' = log \o r.bus
       /\ touchData' = [touchData EXCEPT !.touchStrength = r.val]
  /\ pc' = "rtd_area"
  /\ UNCHANGED <<lastTouchData, ret, gesture0, gesture1>>
  /\ UNCHANGED RtdFixed

\* touchData.area = readRegister8_16bit(IQS5XX_REG_AREA); then the touch
\* state is determined.
readTouchData_area ==
  /\ pc = "rtd_area"
  /\ \E a \in ReadAnswers(1, AreaBytes) :
       LET r == readRegister8_16bit(wire, IQS5XX_REG_AREA,
                                    a.err, a.cnt, a.bytes[1]) IN
       /\ FaultAllowed(a.err, a.cnt, 1)
       /\ faults' = FaultsAfter(a.err, a.cnt, 1)
       /\ log' = log \o r.bus
       /\ touchData' =
            [touchData EXCEPT
               !.area = r.val,
               !.state = TouchStateOf(touchData.touchStrength, touchData.x,
                                      touchData.y)]
  /\ pc' = "rtd_fingers"
  /\ UNCHANGED <<lastTouchData, ret, gesture0, gesture1>>
  /\ UNCHANGED RtdFixed

\* numFingers = readRegister8_16bit(IQS5XX_REG_NUM_FINGERS);
\* touchData.numFingers = numFingers; _lastTouchData = touchData; return true;
readTouchData_fingers ==
  /\ pc = "rtd_fingers"
  /\ \E a \in ReadAnswers(1, FingerBytes) :
       LET r == readRegister8_16bit(wire, IQS5XX_REG_NUM_FINGERS,
                                    a.err, a.cnt, a.bytes[1]) IN
       /\ FaultAllowed(a.err, a.cnt, 1)
       /\ faults' = FaultsAfter(a.err, a.cnt, 1)
       /\ log' = log \o r.bus
       /\ touchData' = [touchData EXCEPT !.numFingers = r.val]
       /\ lastTouchData' = [touchData EXCEPT !.numFingers = r.val]
  /\ ret' = TRUE
  /\ pc' = ReturnPc
  /\ UNCHANGED <<gesture0, gesture1>>
  /\ UNCHANGED RtdFixed

(***************************************************************************)
(* getTouchState(), getTouchX(), getTouchY(), getTouchStrength(),          *)
(* getTouchArea()                                                          *)
(***************************************************************************)
\* TouchData touchData; readTouchData(touchData): the local frame is not
\* initialised, it holds whatever the stack held.
AccessorCall(name) ==
  /\ CanCall
  /\ \E f \in PriorFrames :
       /\ touchData' = f
       /\ priorData' = f
  /\ op' = name
  /\ pc' = "rtd_wait"
  /\ ret' = FALSE
  /\ result' = 0
  /\ log' = <<>>
  /\ faults' = 0
  /\ productNumber' = 0
  /\ gesture0' = 0
  /\ gesture1' = 0
  /\ NoArgs
  /\ UNCHANGED <<wire, lastTouchData, rdy, twin>>

\* The accessor's return statement; ret holds what readTouchData returned.
AccessorReturn(name, v) ==
  /\ op = name
  /\ pc = "acc_return"
  /\ result' = v
  /\ pc' = "done"
  /\ UNCHANGED <<wire, lastTouchData, rdy, op, ret, log, faults, touchData,
                 priorData, productNumber, gesture0, gesture1,
                 reg, value, twin>>

getTouchState == AccessorCall("getTouchState")

getTouchState_return ==
  AccessorReturn("getTouchState",
                 IF ret = TRUE THEN touchData.state ELSE NO_TOUCH)

getTouchX == AccessorCall("getTouchX")

\* Faulty variant: the coordinate is returned whatever the touch state.
getTouchX_return_IgnoresState ==
  AccessorReturn("getTouchX", IF ret = TRUE THEN touchData.x ELSE 0)

getTouchX_return ==
  AccessorReturn("getTouchX",
                 IF ret = TRUE /\ touchData.state # NO_TOUCH
                   THEN touchData.x ELSE 0)

getTouchY == AccessorCall("getTouchY")

getTouchY_return ==
  AccessorReturn("getTouchY",
                 IF ret = TRUE /\ touchData.state # NO_TOUCH
                   THEN touchData.y ELSE 0)

getTouchStrength == AccessorCall("getTouchStrength")

getTouchStrength_return ==
  AccessorReturn("getTouchStrength",
                 IF ret = TRUE /\ touchData.state # NO_TOUCH
                   THEN touchData.touchStrength ELSE 0)

getTouchArea == AccessorCall("getTouchArea")

getTouchArea_return ==
  AccessorReturn("getTouchArea",
                 IF ret = TRUE /\ touchData.state # NO_TOUCH
                   THEN touchData.area ELSE 0)

(***************************************************************************)
(* Environment: the device drives the ready line                           *)
(***************************************************************************)
ReadyLine ==
  /\ rdy' \in {"HIGH", "LOW"} \ {rdy}
  /\ UNCHANGED <<wire, lastTouchData, op, pc, ret, log, faults, touchData,
                 priorData, productNumber, gesture0, gesture1,
                 reg, value, result, twin>>

(***************************************************************************)
(* Specification                                                           *)
(***************************************************************************)
\* The steps of the driver.
Driver ==
  \/ begin
  \/ begin_wakeupDevice
  \/ begin_getProductNumber
  \/ begin_enableManualControl
  \/ Call_isConnected
  \/ Call_getProductNumber
  \/ Call_getVersionInfo
  \/ Call_getSystemFlags
  \/ Call_needsReset
  \/ Call_wakeupDevice
  \/ Call_enableManualControl
  \/ Call_softReset
  \/ Call_increaseSpeed
  \/ Call_writeRegister8
  \/ Call_writeRegister8_16bit
  \/ Call_writeRegister16
  \/ readTouchData
  \/ readTouchData_wait
  \/ readTouchData_x
  \/ readTouchData_y
  \/ readTouchData_gesture0
  \/ readTouchData_gesture1
  \/ readTouchData_strength
  \/ readTouchData_area
  \/ readTouchData_fingers
  \/ getTouchState
  \/ getTouchState_return
  \/ getTouchX
  \/ getTouchX_return
  \/ getTouchY
  \/ getTouchY_return
  \/ getTouchStrength
  \/ getTouchStrength_return
  \/ getTouchArea
  \/ getTouchArea_return

Next == Driver \/ ReadyLine

Spec == Init /\ [][Next]_vars

\* The steps of a call in progress.  The driver is straight-line blocking
\* code on a single thread: a call that can take its next step takes it.
Running ==
  \/ begin_wakeupDevice
  \/ begin_getProductNumber
  \/ begin_enableManualControl
  \/ readTouchData_wait
  \/ readTouchData_x
  \/ readTouchData_y
  \/ readTouchData_gesture0
  \/ readTouchData_gesture1
  \/ readTouchData_strength
  \/ readTouchData_area
  \/ readTouchData_fingers
  \/ getTouchState_return
  \/ getTouchX_return
  \/ getTouchY_return
  \/ getTouchStrength_return
  \/ getTouchArea_return

LiveSpec == Init /\ [][Next]_vars /\ WF_vars(Running)

(***************************************************************************)
(* The nine flag assignments of readTouchData() on their own, for every    *)
(* pair of gesture bytes                                                   *)
(***************************************************************************)
\* A uint8_t
Bytes == 0..255

\* readTouchData() holds any two bytes in gesture0 and gesture1 and is about
\* to assign the flags of the caller's frame.
DecodeInit ==
  /\ wire = "bound"
  /\ lastTouchData = ZeroFrame
  /\ rdy = "LOW"
  /\ op = "readTouchData"
  /\ pc = "rtd_flags"
  /\ ret = FALSE
  /\ result = 0
  /\ log = <<>>
  /\ faults = 0
  /\ touchData \in PriorFrames
  /\ priorData = touchData
  /\ productNumber = 0
  /\ gesture0 \in Bytes
  /\ gesture1 \in Bytes
  /\ reg = 0
  /\ value = 0
  /\ twin = NoTwin

\* touchData.swipeY_minus = (gesture0 & 0b00100000) != 0; ... twoFingerTap
readTouchData_flags ==
  /\ pc = "rtd_flags"
  /\ touchData' = DecodeGestures(touchData, gesture0, gesture1)
  /\ pc' = "rtd_strength"
  /\ UNCHANGED <<wire, lastTouchData, rdy, op, ret, result, log, faults,
                 priorData, productNumber, gesture0, gesture1,
                 reg, value, twin>>

DecodeNext == readTouchData_flags

DecodeSpec == DecodeInit /\ [][DecodeNext]_vars

(***************************************************************************)
(* Two runs of readTouchData() from the same state, side by side: the      *)
(* first run's outcome is kept in `twin`, then the call is made again on   *)
(* the driver state and the caller's frame the first run started from      *)
(***************************************************************************)
\* The driver after a successful begin(), the line LOW, the sketch idle.
PairInit ==
  /\ wire = "bound"
  /\ lastTouchData = ZeroFrame
  /\ rdy = "LOW"
  /\ op = "none"
  /\ pc = "idle"
  /\ ret = FALSE
  /\ result = 0
  /\ log = <<>>
  /\ faults = 0
  /\ touchData = ZeroFrame
  /\ priorData = ZeroFrame
  /\ productNumber = 0
  /\ gesture0 = 0
  /\ gesture1 = 0
  /\ reg = 0
  /\ value = 0
  /\ twin = NoTwin

\* The first run: the sketch calls readTouchData.
FirstRun == pc = "idle" /\ readTouchData

\* The second run: the first one's outcome is kept, the cache and the
\* caller's frame are put back to what the first run started from, and
\* readTouchData is called again.
SecondRun ==
  /\ pc = "done"
  /\ ~twin.kept
  /\ twin' = [kept |-> TRUE, ret |-> ret, touchData |-> touchData,
              lastTouchData |-> lastTouchData, log |-> log]
  /\ lastTouchData' = ZeroFrame
  /\ touchData' = priorData
  /\ pc' = "rtd_wait"
  /\ ret' = FALSE
  /\ log' = <<>>
  /\ faults' = 0
  /\ gesture0' = 0
  /\ gesture1' = 0
  /\ UNCHANGED <<wire, rdy, op, result, priorData, productNumber, reg, value>>

PairNext ==
  \/ FirstRun
  \/ SecondRun
  \/ readTouchData_wait
  \/ readTouchData_x
  \/ readTouchData_y
  \/ readTouchData_gesture0
  \/ readTouchData_gesture1
  \/ readTouchData_strength
  \/ readTouchData_area
  \/ readTouchData_fingers

PairSpec == PairInit /\ [][PairNext]_vars

(***************************************************************************)
(* Properties                                                              *)
(***************************************************************************)
\* The bus transactions of the running or last call, without the delays.
Bus == SelectSeq(log, LAMBDA e : e.kind # "delay")
\* Entry e is a zero-length transaction (a probe).
IsProbe(e) == e.kind = "tx" /\ e.bytes = <<>>
\* Entry e opens an access to register r in the 16-bit addressing scheme.
Addresses(e, r) ==
  /\ e.kind = "tx"
  /\ Len(e.bytes) >= 2
  /\ SubSeq(e.bytes, 1, 2) = <<HighByte(r), LowByte(r)>>
\* Entry e is the address phase of a read of register r, e a write to it.
IsReadOf(e, r) == Addresses(e, r) /\ Len(e.bytes) = 2
IsWriteTo(e, r) == Addresses(e, r) /\ Len(e.bytes) > 2
\* The read whose address phase is log[i] failed on the transport.
ReadFailedAt(i) ==
  \/ log[i].res # 0
  \/ i + 1 <= Len(log) /\ log[i + 1].kind = "rx" /\ log[i + 1].res # log[i + 1].n
\* Number of entries of the log that satisfy Test.
Count(Test(_)) == Len(SelectSeq(log, Test))

\* begin() has performed its identity read / has entered the manual-control step.
IdentityReadDone ==
  op = "begin" /\ \E i \in DOMAIN log : IsReadOf(log[i], IQS5XX_REG_PRODUCT_NUMBER)
ManualControlStarted ==
  op = "begin" /\ \E i \in DOMAIN log : Addresses(log[i], IQS5XX_REG_SYS_CFG0)

\* C1: in begin(), when the presence probe returns an error other than 0 and
\* other than 2, begin returns false and the probe is the only bus transaction
\* of the call (no wake probe, no register read, no register write).
C1_AbsentDeviceFails ==
  (op = "begin" /\ Bus[1].res \notin {0, 2}) =>
     /\ pc = "done"
     /\ ret = FALSE
     /\ Len(Bus) = 1
     /\ IsProbe(Bus[1])

C1_Witness == op = "begin" /\ pc = "done" /\ Bus[1].res = 4

\* C2: in begin(), once the identity read has returned the product number,
\* begin fails when the number is 0 or its low byte is none of 40, 58, 52,
\* without touching system-configuration-0, and it goes on to the
\* manual-control step exactly when the low byte is one of 40, 58, 52.
C2_ProductNumberCheck ==
  IdentityReadDone =>
    IF productNumber = 0 \/ productNumber % 256 \notin {40, 58, 52}
      THEN pc = "done" /\ ret = FALSE /\ ~ManualControlStarted
      ELSE pc = "begin_manual" \/ (pc = "done" /\ ManualControlStarted)

C2_Witness ==
  /\ IdentityReadDone
  /\ productNumber = 297
  /\ pc = "done"

\* C3: in begin(), a presence probe answered with error 2 is followed by
\* exactly two more zero-length transactions with the 200 us delay between
\* them; the first one's result is not looked at; begin goes on to the
\* identity read iff the second returned 0, and otherwise returns false with
\* no retry and no register access.  A presence probe answered with 0 is
\* followed by no further zero-length transaction.
C3_WakeSequence ==
  /\ (op = "begin" /\ Bus[1].res = 2 /\ pc # "begin_wakeup") =>
        /\ Len(log) >= 5
        /\ IsProbe(log[3])
        /\ log[4] = Delay(200)
        /\ IsProbe(log[5])
        /\ Count(IsProbe) = 3
        /\ (log[5].res = 0) <=> (pc = "begin_identity" \/ IdentityReadDone)
        /\ (log[5].res # 0) => (pc = "done" /\ ret = FALSE /\ Len(log) = 5)
  /\ (op = "begin" /\ Bus[1].res = 0) =>
        /\ Count(IsProbe) = 1
        /\ \A i \in DOMAIN log : log[i] # Delay(200)

C3_Witness ==
  /\ op = "begin"
  /\ Len(log) >= 5
  /\ Bus[1].res = 2
  /\ log[3].res = 2
  /\ log[5].res = 0
  /\ IdentityReadDone

\* C4 (as claimed): in begin(), if the read of system-configuration-0 fails on
\* the transport or the write-back fails, begin returns false.
C4_ManualControlFailureFails ==
  (/\ op = "begin"
   /\ pc = "done"
   /\ \E i \in DOMAIN log :
        \/ IsReadOf(log[i], IQS5XX_REG_SYS_CFG0) /\ ReadFailedAt(i)
        \/ IsWriteTo(log[i], IQS5XX_REG_SYS_CFG0) /\ log[i].res # 0)
  => ret = FALSE

\* The state field of frame f is the classification of its other fields.
Classified(f) ==
  f.state = IF f.touchStrength = 0 \/ (f.x = 0 /\ f.y = 0)
              THEN NO_TOUCH ELSE SINGLE_TOUCH

\* C5: the cached last frame and every frame for which readTouchData returned
\* true have state NO_TOUCH when touchStrength is 0 or x and y are both 0, and
\* SINGLE_TOUCH otherwise; no call leaves MULTI_TOUCH in a frame or the cache.
C5_TouchStateClassification ==
  /\ Classified(lastTouchData)
  /\ lastTouchData.state # MULTI_TOUCH
  /\ (op = "readTouchData" /\ pc = "done") =>
        /\ touchData.state # MULTI_TOUCH
        /\ ret = TRUE => Classified(touchData)

C5_Witness ==
  /\ op = "readTouchData"
  /\ pc = "done"
  /\ ret = TRUE
  /\ priorData = MarkFrame
  /\ touchData.touchStrength = 0
  /\ touchData.x # 0
  /\ touchData.y # 0

\* readTouchData has just returned, to the sketch or to an accessor; ret is
\* what it returned.
AtRtdReturn == (op = "readTouchData" /\ pc = "done") \/ pc = "acc_return"

\* C6: the cached frame is all-zero/NO_TOUCH after construction; it changes
\* only in the last step of a readTouchData call that returns true, to the
\* frame handed back to the caller; every such call stores its frame; a call
\* that returns false and every other operation leave it unchanged.
C6_LastFrameCache ==
  /\ lastTouchData = ZeroFrame
  /\ [][/\ lastTouchData' # lastTouchData =>
             /\ op \in {"readTouchData"} \cup Accessors
             /\ pc = "rtd_fingers"
             /\ AtRtdReturn'
             /\ ret' = TRUE
             /\ lastTouchData' = touchData'
        /\ (~AtRtdReturn /\ AtRtdReturn' /\ ret' = TRUE)
             => lastTouchData' = touchData'
        /\ (~AtRtdReturn /\ AtRtdReturn' /\ ret' = FALSE)
             => lastTouchData' = lastTouchData
        /\ (pc # "done" /\ pc' = "done" /\ (op' # "readTouchData" \/ ret' = FALSE))
             => lastTouchData' = lastTouchData]_vars

C6_Witness ==
  /\ op = "readTouchData"
  /\ pc = "done"
  /\ ret = FALSE
  /\ lastTouchData # ZeroFrame
  /\ lastTouchData.x # touchData.x

\* C7: when the X read yields 0, readTouchData returns false with state
\* NO_TOUCH, reads no other register and leaves every field of the caller's
\* frame other than x and state as it was; when X is non-zero and the Y read
\* yields 0, the same holds with only x, y and state written and no read
\* after Y.
C7_AbortOnZeroCoordinate ==
  /\ (op = "readTouchData" /\ pc \notin {"rtd_wait", "rtd_x"} /\ touchData.x = 0) =>
        /\ pc = "done"
        /\ ret = FALSE
        /\ touchData = [priorData EXCEPT !.x = 0, !.state = NO_TOUCH]
        /\ Len(Bus) <= 2
        /\ \A i \in DOMAIN Bus :
             Bus[i].kind = "tx" => IsReadOf(Bus[i], IQS5XX_REG_TOUCH_X)
  /\ (/\ op = "readTouchData"
      /\ pc \notin {"rtd_wait", "rtd_x", "rtd_y"}
      /\ touchData.x # 0
      /\ touchData.y = 0) =>
        /\ pc = "done"
        /\ ret = FALSE
        /\ touchData = [priorData EXCEPT !.x = touchData.x, !.y = 0,
                                         !.state = NO_TOUCH]
        /\ Len(Bus) <= 4
        /\ \A i \in DOMAIN Bus :
             Bus[i].kind = "tx" =>
               IF i = 1 THEN IsReadOf(Bus[i], IQS5XX_REG_TOUCH_X)
                        ELSE IsReadOf(Bus[i], IQS5XX_REG_TOUCH_Y)

C7_Witness ==
  /\ op = "readTouchData"
  /\ pc = "done"
  /\ priorData = MarkFrame
  /\ touchData.x = 256
  /\ touchData.y = 0
  /\ touchData.area = 9

\* C8 (as claimed): readTouchData returns false whenever one of the register
\* reads of the acquisition failed on the transport.
C8_FailedReadReturnsFalse ==
  (/\ op = "readTouchData"
   /\ pc = "done"
   /\ \E i \in DOMAIN log : log[i].kind = "tx" /\ ReadFailedAt(i))
  => ret = FALSE

\* C10: on a bound transport, writeRegister8 sends exactly [reg, value],
\* writeRegister8_16bit exactly [reg high, reg low, value] and writeRegister16
\* exactly [reg high, reg low, value high, value low], each in one transaction,
\* and each returns true iff closing that transaction reported no error.
C10_RegisterWrites ==
  (wire = "bound" /\ pc = "done"
     /\ op \in {"writeRegister8", "writeRegister8_16bit", "writeRegister16"}) =>
    /\ Len(log) = 1
    /\ log[1].kind = "tx"
    /\ ret <=> (log[1].res = 0)
    /\ op = "writeRegister8" => log[1].bytes = <<reg, value>>
    /\ op = "writeRegister8_16bit" =>
         log[1].bytes = <<reg \div 256, reg % 256, value>>
    /\ op = "writeRegister16" =>
         log[1].bytes = <<reg \div 256, reg % 256, value \div 256, value % 256>>

C10_Witness ==
  /\ wire = "bound"
  /\ pc = "done"
  /\ op = "writeRegister16"
  /\ value = 258
  /\ ret = TRUE

\* C9: a readTouchData call that has sampled the ready line LOW returns, and so
\* does a waiting call when the line stays LOW; the wait is left only by a LOW
\* sample, towards the X read and with no bus transaction made; while the line
\* stays HIGH forever the call stays in the wait forever, with no bus
\* transaction.
C9_ReadyLineWait ==
  /\ (op = "readTouchData" /\ pc \notin {"rtd_wait", "done"}) ~> (pc = "done")
  /\ [](pc = "rtd_wait" /\ [](rdy = "LOW") => <>(pc = "done"))
  /\ [][pc = "rtd_wait" /\ pc' # "rtd_wait" =>
          rdy = "LOW" /\ pc' = "rtd_x" /\ log' = <<>>]_vars
  /\ [](pc = "rtd_wait" /\ [](rdy = "HIGH") => [](pc = "rtd_wait" /\ log = <<>>))

C9_Witness ==
  /\ op = "readTouchData"
  /\ pc = "done"
  /\ rdy = "HIGH"
  /\ Len(log) > 0

\* The call's first register read did not deliver its data: nothing was put
\* on the bus, the address transaction was refused or the byte count was short.
FirstReadFailed == log = <<>> \/ ReadFailedAt(1)

\* C11: every data request directly follows an address-only transaction that
\* closed without error, so a refused address transaction is followed by no
\* request; a request answered with another byte count than asked for takes
\* no byte from the transport, a fully answered one takes exactly the bytes
\* asked for; and a read whose address phase or byte count failed yields the
\* zero sentinel (0, or false for needsReset), never a partly assembled value.
C11_TwoPhaseRead ==
  /\ \A i \in DOMAIN log :
       log[i].kind = "rx" =>
         /\ i > 1
         /\ log[i - 1].kind = "tx"
         /\ log[i - 1].n \in {1, 2}
         /\ log[i - 1].res = 0
         /\ Len(log[i].bytes) = IF log[i].res = log[i].n THEN log[i].n ELSE 0
  /\ (pc = "done" /\ FirstReadFailed
        /\ op \in {"getProductNumber", "getVersionInfo", "getSystemFlags"})
       => result = 0
  /\ (pc = "done" /\ FirstReadFailed /\ op = "needsReset") => ret = FALSE
  /\ (op = "readTouchData" /\ pc \notin {"rtd_wait", "rtd_x"} /\ FirstReadFailed)
       => touchData.x = 0

C11_Witness ==
  /\ op = "getVersionInfo"
  /\ pc = "done"
  /\ Len(log) = 2
  /\ log[2].kind = "rx"
  /\ log[2].n = 2
  /\ log[2].res = 1
  /\ result = 0

\* C12: a successful 2-byte read through the 16-bit-addressed path
\* (getProductNumber, and readRegister16_16bit as used for X) returns
\* b0 * 256 + b1 of the bytes b0, b1 in the order received, while a successful
\* 2-byte read through the legacy 8-bit-addressed path (readRegister16 over
\* readBytes, as used by getVersionInfo) returns b1 * 256 + b0.
C12_ByteOrder ==
  /\ (op = "getProductNumber" /\ pc = "done" /\ ~FirstReadFailed) =>
        result = log[2].bytes[1] * 256 + log[2].bytes[2]
  /\ (op = "readTouchData" /\ pc \notin {"rtd_wait", "rtd_x"} /\ ~FirstReadFailed) =>
        touchData.x = log[2].bytes[1] * 256 + log[2].bytes[2]
  /\ (op = "getVersionInfo" /\ pc = "done" /\ ~FirstReadFailed) =>
        result = log[2].bytes[2] * 256 + log[2].bytes[1]

C12_Witness ==
  /\ op = "getVersionInfo"
  /\ pc = "done"
  /\ Len(log) = 2
  /\ log[2].bytes = <<1, 2>>
  /\ result = 513

\* The field an accessor hands out, taken from frame f.
FieldOf(name, f) ==
  CASE name = "getTouchX" -> f.x
    [] name = "getTouchY" -> f.y
    [] name = "getTouchStrength" -> f.touchStrength
    [] name = "getTouchArea" -> f.area

\* C13: a returned accessor call has made one acquisition of its own (the X
\* register was addressed once in the call, and an acquired frame carries the
\* X bytes received in this call); getTouchX, getTouchY, getTouchStrength and
\* getTouchArea return the field of that frame when the acquisition returned
\* true with a state other than NO_TOUCH, and 0 otherwise; getTouchState
\* returns the state of that frame when the acquisition returned true, and
\* NO_TOUCH otherwise.
C13_Accessors ==
  (op \in Accessors /\ pc = "done") =>
    /\ wire = "bound" =>
         Len(SelectSeq(log, LAMBDA e : IsReadOf(e, IQS5XX_REG_TOUCH_X))) = 1
    /\ ret = TRUE =>
         touchData.x = log[2].bytes[1] * 256 + log[2].bytes[2]
    /\ op = "getTouchState" =>
         result = IF ret = TRUE THEN touchData.state ELSE NO_TOUCH
    /\ op # "getTouchState" =>
         result = IF ret = TRUE /\ touchData.state # NO_TOUCH
                    THEN FieldOf(op, touchData) ELSE 0

\* The acquisition succeeded with a non-zero X but classified the frame
\* NO_TOUCH, so getTouchX hands out 0.
C13_Witness ==
  /\ op = "getTouchX"
  /\ pc = "done"
  /\ ret = TRUE
  /\ touchData.state = NO_TOUCH
  /\ touchData.x = 256
  /\ priorData = MarkFrame
  /\ result = 0

\* C14 (as claimed, on a bound transport): increaseSpeed() issues exactly two
\* writes and no read, a 1-byte write of 5 to 0x058A and then a 2-byte write
\* of 5 to 0x057A, and returns true iff both succeed.
C14_ExactlyTwoWrites ==
  (wire = "bound" /\ op = "increaseSpeed" /\ pc = "done") =>
    /\ Len(log) = 2
    /\ log[1] = Tx(<<5, 138, 5>>, log[1].res)
    /\ log[2] = Tx(<<5, 122, 0, 5>>, log[2].res)
    /\ ret <=> (log[1].res = 0 /\ log[2].res = 0)

\* C14 (amended): on a bound transport increaseSpeed() issues no read; it
\* issues the 1-byte write of 5 to 0x058A and, only when that write succeeded,
\* the 2-byte write of 5 to 0x057A after it (two writes when the first
\* succeeds, one when it fails); it returns true iff both writes were issued
\* and succeeded.
C14_IncreaseSpeed ==
  (wire = "bound" /\ op = "increaseSpeed" /\ pc = "done") =>
    /\ Len(log) \in {1, 2}
    /\ log[1] = Tx(<<5, 138, 5>>, log[1].res)
    /\ (Len(log) = 2) <=> (log[1].res = 0)
    /\ Len(log) = 2 => log[2] = Tx(<<5, 122, 0, 5>>, log[2].res)
    /\ ret <=> (Len(log) = 2 /\ log[2].res = 0)

C14_Witness ==
  /\ wire = "bound"
  /\ op = "increaseSpeed"
  /\ pc = "done"
  /\ Len(log) = 1
  /\ log[1].res = 2
  /\ ret = FALSE

\* Bit k of byte v, by remainders.
HasBit(v, k) == v % (2 ^ (k + 1)) >= 2 ^ k

\* C15: after the flag assignments, swipeY_minus, swipeY_plus, swipeX_plus,
\* swipeX_minus, pressAndHold and singleTap equal bits 5, 4, 3, 2, 1 and 0 of
\* gesture byte 0, and zoom, scroll and twoFingerTap equal bits 2, 1 and 0 of
\* gesture byte 1, for every pair of bytes; so bits 6-7 of byte 0 and bits 3-7
\* of byte 1 affect no flag (the flags are the same as for the bytes with
\* those bits cleared), no other field of the frame is touched, and byte 0 =
\* 0b00100001 gives swipeY_minus and singleTap and no other byte-0 flag.
C15_GestureDecode ==
  pc = "rtd_strength" /\ log = <<>> =>
    /\ touchData.swipeY_minus = HasBit(gesture0, 5)
    /\ touchData.swipeY_plus = HasBit(gesture0, 4)
    /\ touchData.swipeX_plus = HasBit(gesture0, 3)
    /\ touchData.swipeX_minus = HasBit(gesture0, 2)
    /\ touchData.pressAndHold = HasBit(gesture0, 1)
    /\ touchData.singleTap = HasBit(gesture0, 0)
    /\ touchData.zoom = HasBit(gesture1, 2)
    /\ touchData.scroll = HasBit(gesture1, 1)
    /\ touchData.twoFingerTap = HasBit(gesture1, 0)
    /\ touchData = DecodeGestures(priorData, gesture0 % 64, gesture1 % 8)
    /\ \A k \in {"x", "y", "touchStrength", "area", "state", "numFingers"} :
         touchData[k] = priorData[k]
    /\ gesture0 = 33 =>
         /\ touchData.swipeY_minus /\ touchData.singleTap
         /\ ~touchData.swipeY_plus /\ ~touchData.swipeX_plus
         /\ ~touchData.swipeX_minus /\ ~touchData.pressAndHold

C15_Witness ==
  /\ pc = "rtd_strength"
  /\ log = <<>>
  /\ gesture0 = 225
  /\ gesture1 = 253
  /\ priorData = ZeroFrame
  /\ touchData.swipeY_minus
  /\ touchData.singleTap
  /\ ~touchData.pressAndHold
  /\ touchData.zoom
  /\ ~touchData.scroll
  /\ touchData.twoFingerTap

\* The read whose address phase is l[i] failed on the transport.
FailedIn(l, i) ==
  \/ l[i].res # 0
  \/ i + 1 <= Len(l) /\ l[i + 1].kind = "rx" /\ l[i + 1].res # l[i + 1].n
\* What the register reads of bus log l delivered, read by read from entry i
\* on: the received bytes, or <<>> for a read that failed and likewise for a
\* read that received only zero bytes.
RECURSIVE Delivered(_, _)
Delivered(l, i) ==
  IF i > Len(l) THEN <<>>
  ELSE IF l[i].kind # "tx" THEN Delivered(l, i + 1)
  ELSE IF FailedIn(l, i) \/ \A k \in DOMAIN l[i + 1].bytes : l[i + 1].bytes[k] = 0
    THEN <<(<<>>)>> \o Delivered(l, i + 1)
  ELSE <<l[i + 1].bytes>> \o Delivered(l, i + 1)
\* Some read of bus log l failed on the transport.
SomeReadFailed(l) == \E i \in DOMAIN l : l[i].kind = "tx" /\ FailedIn(l, i)

Acquirers == {"readTouchData"} \cup Accessors
\* The registers of an acquisition in reading order, with their byte counts.
AcquisitionOrder ==
  << <<IQS5XX_REG_TOUCH_X, 2>>, <<IQS5XX_REG_TOUCH_Y, 2>>,
     <<IQS5XX_SYS_GESTURE_EVENTS_0, 1>>, <<IQS5XX_SYS_GESTURE_EVENTS_1, 1>>,
     <<IQS5XX_REG_TOUCH_STRENGTH, 1>>, <<IQS5XX_REG_AREA, 1>>,
     <<IQS5XX_REG_NUM_FINGERS, 1>> >>
\* The transactions of the log, without the data requests.
Transactions == SelectSeq(log, LAMBDA e : e.kind = "tx")

\* C17: an acquisition that returned true has made exactly seven
\* transactions, the address phases of the reads of X, Y, gesture byte 0,
\* gesture byte 1, strength, area and finger count in this order, and no
\* write; every data request directly follows the address phase of its read
\* and asks for 2 bytes for X and Y and for 1 byte otherwise; and every call
\* of readTouchData or of an accessor starts at the ready-line wait with
\* nothing read, the X read being reached from the wait only.
C17_AcquisitionOrder ==
  /\ []((op \in Acquirers /\ pc \in {"done", "acc_return"} /\ ret = TRUE) =>
          /\ Len(Transactions) = 7
          /\ \A k \in 1..7 : IsReadOf(Transactions[k], AcquisitionOrder[k][1])
          /\ \A i \in DOMAIN log :
               /\ log[i].kind \in {"tx", "rx"}
               /\ log[i].kind = "rx" =>
                    \E k \in 1..7 :
                      /\ log[i - 1] = Transactions[k]
                      /\ log[i].n = AcquisitionOrder[k][2])
  /\ [][/\ (pc \in {"idle", "done"} /\ op' \in Acquirers /\ pc' # pc) =>
             (pc' = "rtd_wait" /\ log' = <<>>)
        /\ (pc # "rtd_x" /\ pc' = "rtd_x") => (pc = "rtd_wait" /\ log' = <<>>)]_vars

C17_Witness ==
  /\ op = "getTouchArea"
  /\ pc = "done"
  /\ ret = TRUE
  /\ Len(log) = 13
  /\ log[3].res = 0
  /\ log[4].kind = "rx"
  /\ log[4].n = 2

\* The positions of an acquisition after the wait, and its read steps.
ReadPositions ==
  {"rtd_x", "rtd_y", "rtd_gesture0", "rtd_gesture1", "rtd_strength",
   "rtd_area", "rtd_fingers"}
ReadStep ==
  \/ readTouchData_x
  \/ readTouchData_y
  \/ readTouchData_gesture0
  \/ readTouchData_gesture1
  \/ readTouchData_strength
  \/ readTouchData_area
  \/ readTouchData_fingers

\* C18: an acquisition that is still in the ready-line wait has made no bus
\* transaction; its first transaction is made by the X read, which is reached
\* only by a step of the wait that sampled the line LOW; and once past the
\* wait the call never goes back to it and its next read can be taken
\* whatever the level of the line, which it does not look at again.
C18_ReadyLineGating ==
  /\ [](pc = "rtd_wait" => log = <<>>)
  /\ [](pc \in ReadPositions => ENABLED ReadStep)
  /\ [][/\ (pc # "rtd_x" /\ pc' = "rtd_x") => (pc = "rtd_wait" /\ rdy = "LOW")
        /\ (op' \in Acquirers /\ log = <<>> /\ log' # <<>>) => pc = "rtd_x"
        /\ pc \in ReadPositions => pc' # "rtd_wait"]_vars

\* The line has gone HIGH in the middle of the reads and the call goes on.
C18_Witness ==
  /\ op = "readTouchData"
  /\ pc = "rtd_strength"
  /\ rdy = "HIGH"
  /\ Len(log) = 8

\* Entry e is a register write: a transaction carrying more than an address.
\* (The driver addresses every register of begin() with two bytes.)
IsWrite(e) == e.kind = "tx" /\ Len(e.bytes) > 2

\* C19 (as claimed): in begin(), a register write is made only after the
\* presence probe or the wake confirmation succeeded and the identity read
\* returned a product number whose low byte is 40, 58 or 52; the call makes
\* at most one write, a 1-byte write to 0x058E that directly follows the read
\* of that register and carries the byte received by that read with bit 7
\* set and bits 0-6 unchanged; and begin returns true only after that write
\* succeeded.
C19_NoWriteBeforeIdentification ==
  op = "begin" =>
    /\ Len(SelectSeq(log, IsWrite)) <= 1
    /\ \A i \in DOMAIN log :
         IsWrite(log[i]) =>
           /\ Bus[1].res = 0 \/ (Len(log) >= 5 /\ log[5].res = 0)
           /\ productNumber % 256 \in {40, 58, 52}
           /\ IsWriteTo(log[i], IQS5XX_REG_SYS_CFG0)
           /\ Len(log[i].bytes) = 3
           /\ log[i - 1].kind = "rx"
           /\ Len(log[i - 1].bytes) = 1
           /\ log[i].bytes[3] % 128 = log[i - 1].bytes[1] % 128
           /\ log[i].bytes[3] >= 128
    /\ (pc = "done" /\ ret = TRUE) =>
         \E i \in DOMAIN log : IsWrite(log[i]) /\ log[i].res = 0

\* C20: while the transport is unbound (begin was never called) no call puts
\* anything on the bus; isConnected, wakeupDevice, enableManualControl,
\* needsReset, softReset, increaseSpeed and the write primitives return false,
\* getProductNumber, getVersionInfo and getSystemFlags return 0; an
\* acquisition that got past the ready-line wait ends at the X read,
\* readTouchData returning false with state NO_TOUCH, x = 0 and the other
\* fields of the caller's frame untouched; and the cached frame stays the
\* all-zero frame of construction.
C20_UnboundTransport ==
  wire = "null" =>
    /\ log = <<>>
    /\ lastTouchData = ZeroFrame
    /\ (pc = "done"
          /\ op \in {"isConnected", "wakeupDevice", "enableManualControl",
                     "needsReset", "softReset", "increaseSpeed",
                     "writeRegister8", "writeRegister8_16bit", "writeRegister16"})
         => ret = FALSE
    /\ (pc = "done"
          /\ op \in {"getProductNumber", "getVersionInfo", "getSystemFlags"})
         => result = 0
    /\ (op \in Acquirers /\ pc \notin {"rtd_wait", "rtd_x"}) =>
         /\ pc \in {"done", "acc_return"}
         /\ ret = FALSE
         /\ touchData = [priorData EXCEPT !.x = 0, !.state = NO_TOUCH]
         /\ pc = "done" => result = 0

C20_Witness ==
  /\ wire = "null"
  /\ op = "readTouchData"
  /\ pc = "done"
  /\ priorData = MarkFrame
  /\ touchData.state = NO_TOUCH
  /\ touchData.y = 9

====
